---- MODULE Spec2Model ----
(***************************************************************************)
(* Model of shvlog-rs, src/src/lib.rs: the LogConfig threshold tables,     *)
(* their parser and serializer, and the LogLineFilter::write decision.     *)
(*                                                                         *)
(* A Rust String is modelled as a sequence of one-character strings, so    *)
(* that split(','), split(':') and str::find work on characters.  A        *)
(* HashMap<String, Level> is a function from patterns to levels; its       *)
(* iteration order is unspecified and is a nondeterministic choice of an   *)
(* enumeration of its keys wherever the code iterates.                     *)
(***************************************************************************)
EXTENDS Integers, Sequences, FiniteSets, TLC

VARIABLES
    module_tresholds,   \* LogConfig::new argument: module specs
    target_tresholds,   \* LogConfig::new argument: target specs
    pc,                 \* "init" | "constructed" | "panicked"
    module_levels,      \* LogConfig.module_levels
    target_levels,      \* LogConfig.target_levels
    decided,            \* TRUE while a write() call has decided and not returned
    record,             \* the log::Record of the last write() call
    verbosity_level,    \* the local verbosity_level of the last write() call
    written,            \* TRUE iff the last write() called log_line_writer.write
    level_strings,      \* parse_level_strings argument (SpecParse)
    parse_pc,           \* "start" | "parsed" | "panicked" | "serialized" | "reparsed"
    levels,             \* result of parse_level_strings(level_strings)
    text,               \* result of levels_to_string(levels)
    reparsed            \* result of parse_level_strings([text])

vars == <<module_tresholds, target_tresholds, pc, module_levels, target_levels,
          decided, record, verbosity_level, written,
          level_strings, parse_pc, levels, text, reparsed>>

resolver_vars == <<module_tresholds, target_tresholds, pc, module_levels,
                   target_levels, decided, record, verbosity_level, written>>

parse_vars == <<level_strings, parse_pc, levels, text, reparsed>>

----------------------------------------------------------------------------
(* Bounds of the model *)

\* largest number of comma/string separated entries in one slice of specs
MaxEntries == 2

----------------------------------------------------------------------------
(* log::Level *)

Level == {"Error", "Warn", "Info", "Debug", "Trace"}

\* the derived PartialOrd of log::Level: Error = 1 < Warn < Info < Debug < Trace
LevelOrd == [l \in Level |->
    CASE l = "Error" -> 1
      [] l = "Warn"  -> 2
      [] l = "Info"  -> 3
      [] l = "Debug" -> 4
      [] l = "Trace" -> 5]

\* Display of log::Level, as used by format!("{}:{}", target, level)
LevelDisplay == [l \in Level |->
    CASE l = "Error" -> <<"E", "R", "R", "O", "R">>
      [] l = "Warn"  -> <<"W", "A", "R", "N">>
      [] l = "Info"  -> <<"I", "N", "F", "O">>
      [] l = "Debug" -> <<"D", "E", "B", "U", "G">>
      [] l = "Trace" -> <<"T", "R", "A", "C", "E">>]

----------------------------------------------------------------------------
(* Strings and maps *)

\* str::split(sep): n separators give n + 1 pieces, empty pieces included
RECURSIVE Split(_, _)
Split(s, sep) ==
    IF \A i \in 1..Len(s) : s[i] # sep
    THEN <<s>>
    ELSE LET i == CHOOSE k \in 1..Len(s) :
                      s[k] = sep /\ \A j \in 1..(k - 1) : s[j] # sep
         IN  <<SubSeq(s, 1, i - 1)>> \o Split(SubSeq(s, i + 1, Len(s)), sep)

\* a search that starts one character late
FindFromSecond(s, key) ==
    \E i \in 1..(Len(s) - Len(key)) : SubSeq(s, i + 1, i + Len(key)) = key

\* str::find(key).is_some(): key occurs in s as a contiguous substring
Find(s, key) ==
    \E i \in 0..(Len(s) - Len(key)) : SubSeq(s, i + 1, i + Len(key)) = key

\* HashMap::new()
EmptyMap == [p \in {} |-> "Info"]

\* a map that keeps the first value of a key (or_insert instead of insert)
InsertKeepFirst(m, k, v) ==
    [p \in (DOMAIN m) \cup {k} |-> IF p \in DOMAIN m THEN m[p] ELSE v]

\* HashMap::insert: overwrites the value of an existing key
Insert(m, k, v) ==
    [p \in (DOMAIN m) \cup {k} |-> IF p = k THEN v ELSE m[p]]

\* the enumerations of a map's keys: every order HashMap iteration may take
IterOrders(m) ==
    {o \in [1..Cardinality(DOMAIN m) -> DOMAIN m] :
        \A i, j \in DOMAIN o : i # j => o[i] # o[j]}

----------------------------------------------------------------------------
(* LogConfig::parse_level_strings *)

\* the match on level_abbr
AbbrLevel(level_abbr) ==
    CASE level_abbr = <<"T">> -> "Trace"
      [] level_abbr = <<"D">> -> "Debug"
      [] level_abbr = <<"I">> -> "Info"
      [] level_abbr = <<"W">> -> "Warn"
      [] level_abbr = <<"E">> -> "Error"
      [] OTHER -> "Info"

\* the two nested for loops, over the entries of all strings in input order
RECURSIVE FlatEntries(_)
FlatEntries(strings) ==
    IF strings = <<>> THEN <<>>
    ELSE Split(Head(strings), ",") \o FlatEntries(Tail(strings))

\* a split of the entry that ignores what follows a second colon
SplitEntryLenient(level_str) ==
    LET parts == Split(level_str, ":") IN
    IF Len(parts) = 1
    THEN [panicked |-> FALSE, target |-> parts[1], level_abbr |-> <<"T">>]
    ELSE [panicked |-> FALSE, target |-> parts[1], level_abbr |-> parts[2]]

\* level_str.split(':') and the (target, level_abbr) it gives, or the panic
SplitEntry(level_str) ==
    LET parts == Split(level_str, ":") IN
    IF Len(parts) = 1
    THEN [panicked |-> FALSE, target |-> parts[1], level_abbr |-> <<"T">>]
    ELSE IF Len(parts) = 2
    THEN [panicked |-> FALSE, target |-> parts[1], level_abbr |-> parts[2]]
    ELSE [panicked |-> TRUE, target |-> <<>>, level_abbr |-> <<>>]

\* the loop body; a panic abandons the map built so far
RECURSIVE ParseEntries(_, _)
ParseEntries(entries, acc) ==
    IF entries = <<>> THEN [panicked |-> FALSE, levels |-> acc]
    ELSE LET level_str == Head(entries) IN
         IF level_str = <<>> THEN ParseEntries(Tail(entries), acc)
         ELSE LET e == SplitEntry(level_str) IN
              IF e.panicked THEN [panicked |-> TRUE, levels |-> EmptyMap]
              ELSE ParseEntries(Tail(entries),
                                Insert(acc, e.target, AbbrLevel(e.level_abbr)))

parse_level_strings(strings) == ParseEntries(FlatEntries(strings), EmptyMap)

----------------------------------------------------------------------------
(* LogConfig::levels_to_string *)

\* format!("{}:{}", target, level)
FormatEntry(target, level) == target \o <<":">> \o LevelDisplay[level]

\* a fold whose closure returns s and forgets the accumulator
RECURSIVE FoldEntriesForgetAcc(_, _, _, _)
FoldEntriesForgetAcc(m, o, i, acc) ==
    IF i > Len(o) THEN acc
    ELSE FoldEntriesForgetAcc(m, o, i + 1, o[i] \o <<":">> \o LevelDisplay[m[o[i]]])

\* the fold over the map's entries in iteration order o
RECURSIVE FoldEntries(_, _, _, _)
FoldEntries(m, o, i, acc) ==
    IF i > Len(o) THEN acc
    ELSE LET s == FormatEntry(o[i], m[o[i]])
         IN  FoldEntries(m, o, i + 1,
                         IF acc = <<>> THEN s ELSE acc \o <<",">> \o s)

levels_to_string(m, o) == FoldEntries(m, o, 1, <<>>)

----------------------------------------------------------------------------
(* LogConfig::new *)

\* a constructor that inserts the fallback entry unconditionally
NewAlwaysFallback(module_specs, target_specs) ==
    LET m == parse_level_strings(module_specs)
        t == parse_level_strings(target_specs)
    IN  IF m.panicked \/ t.panicked
        THEN [panicked |-> TRUE, module_levels |-> EmptyMap,
              target_levels |-> EmptyMap]
        ELSE [panicked |-> FALSE,
              module_levels |-> Insert(m.levels, <<>>, "Info"),
              target_levels |-> t.levels]

\* the struct built by new(), or the panic that escapes it
New_result(module_specs, target_specs) ==
    LET m == parse_level_strings(module_specs)
        t == parse_level_strings(target_specs)
    IN  IF m.panicked \/ t.panicked
        THEN [panicked |-> TRUE, module_levels |-> EmptyMap,
              target_levels |-> EmptyMap]
        ELSE [panicked |-> FALSE,
              module_levels |-> IF DOMAIN m.levels = {}
                                THEN Insert(m.levels, <<>>, "Info")
                                ELSE m.levels,
              target_levels |-> t.levels]

----------------------------------------------------------------------------
(* <LogConfig as LogLineFilter>::write *)

\* Option<&str>::unwrap_or, the Option being the empty set or a singleton
UnwrapOr(opt, default) == IF opt = {} THEN default ELSE CHOOSE s \in opt : TRUE

\* a loop whose break is outside the if: only the first key is tried
ScanBreakAlways(table, o, i, candidate, initial) ==
    IF i > Len(o) THEN initial
    ELSE IF Find(candidate, o[i]) THEN table[o[i]] ELSE initial

\* one for loop of write(): the level of the first key, in iteration order o,
\* that the candidate string contains, or the initial verbosity_level
RECURSIVE Scan(_, _, _, _, _)
Scan(table, o, i, candidate, initial) ==
    IF i > Len(o) THEN initial
    ELSE IF Find(candidate, o[i]) THEN table[o[i]]
         ELSE Scan(table, o, i + 1, candidate, initial)

is_target_set(r) == UnwrapOr(r.module_path, <<>>) # r.target

\* the table write() iterates for record r
GoverningTable(r, m_levels, t_levels) ==
    IF is_target_set(r) THEN t_levels ELSE m_levels

\* a resolution that falls back to the module table when no target matches
ThresholdFallThrough(r, m_levels, t_levels, o) ==
    LET module == UnwrapOr(r.module_path, <<>>)
        target == r.target
        mo == CHOOSE x \in IterOrders(m_levels) : TRUE
    IN  IF is_target_set(r)
        THEN Scan(t_levels, o, 1, target, Scan(m_levels, mo, 1, target, "Info"))
        ELSE Scan(m_levels, o, 1, module, "Info")

\* the value of verbosity_level at the comparison, o being the iteration
\* order of the table that is scanned
Threshold(r, m_levels, t_levels, o) ==
    LET module == UnwrapOr(r.module_path, <<>>)
        target == r.target
    IN  IF is_target_set(r)
        THEN Scan(t_levels, o, 1, target, "Info")
        ELSE Scan(m_levels, o, 1, module, "Info")

\* the comparison with < for <=
PassesStrict(level, threshold) == LevelOrd[level] < LevelOrd[threshold]

\* the comparison with the operands exchanged
PassesReversed(level, threshold) == LevelOrd[threshold] <= LevelOrd[level]

\* record.level() <= verbosity_level
Passes(level, threshold) == LevelOrd[level] <= LevelOrd[threshold]

----------------------------------------------------------------------------
(* Inputs *)

\* patterns and ":abbreviation" suffixes the entries are built from
Patterns == {<<>>, <<"a">>}

Suffixes == {<<>>, <<":">>, <<":", "T">>, <<":", "D">>, <<":", "I">>,
             <<":", "W">>, <<":", "E">>, <<":", "Z">>,
             <<":", "A", ":", "B">>}

\* the entries: the empty entry, "pattern" and "pattern:..." forms
Entries == {p \o s : p \in Patterns, s \in Suffixes}

\* a slice extended by one entry, after a comma or as a new string
Extend(slices, entries) ==
    {Append(sl, e) : sl \in slices, e \in entries}
    \cup {[sl EXCEPT ![Len(sl)] = @ \o <<",">> \o e] :
            sl \in slices \ {<<>>}, e \in entries}

RECURSIVE SlicesUpTo(_, _)
SlicesUpTo(entries, n) ==
    IF n = 0 THEN {<<>>}
    ELSE LET prev == SlicesUpTo(entries, n - 1)
         IN  prev \cup Extend(prev, entries)

\* the argument values of parse_level_strings
LevelStrings == SlicesUpTo(Entries, MaxEntries)

\* the other argument of new() when one argument ranges over LevelStrings
OtherSpecs == {<<>>, <<<<"a", ":", "E">>>>, <<<<"a", ":", "A", ":", "B">>>>}

\* module paths and targets of the records
Paths == {<<>>, <<"a", "b", "c">>, <<"x", "y", "z">>}

Records == [level : Level,
            module_path : {{}} \cup {{s} : s \in Paths \ {<<>>}},
            target : Paths]

NoRecord == [level |-> "Info", module_path |-> {}, target |-> <<>>]

NoParse == [panicked |-> FALSE, levels |-> EmptyMap]

----------------------------------------------------------------------------
(* The resolver: construction, then any number of write() calls *)

Init ==
    /\ \E s \in LevelStrings, o \in OtherSpecs :
          \/ module_tresholds = s /\ target_tresholds = o
          \/ module_tresholds = o /\ target_tresholds = s
    /\ pc = "init"
    /\ module_levels = EmptyMap
    /\ target_levels = EmptyMap
    /\ decided = FALSE
    /\ record = NoRecord
    /\ verbosity_level = "Info"
    /\ written = FALSE
    /\ level_strings = <<>>
    /\ parse_pc = "start"
    /\ levels = EmptyMap
    /\ text = <<>>
    /\ reparsed = NoParse

New ==
    /\ pc = "init"
    /\ LET lv == New_result(module_tresholds, target_tresholds) IN
          /\ pc' = IF lv.panicked THEN "panicked" ELSE "constructed"
          /\ module_levels' = lv.module_levels
          /\ target_levels' = lv.target_levels
    /\ UNCHANGED <<module_tresholds, target_tresholds, decided, record,
                   verbosity_level, written, parse_vars>>

Write ==
    /\ pc = "constructed"
    /\ ~decided
    /\ \E r \in Records :
       \E o \in IterOrders(GoverningTable(r, module_levels, target_levels)) :
          /\ record' = r
          /\ verbosity_level' = Threshold(r, module_levels, target_levels, o)
          /\ written' = Passes(r.level, verbosity_level')
    /\ decided' = TRUE
    /\ UNCHANGED <<module_tresholds, target_tresholds, pc, module_levels,
                   target_levels, parse_vars>>

\* write() returns Ok(()); its locals are gone and the filter is ready for
\* the next record
Return ==
    /\ decided
    /\ decided' = FALSE
    /\ record' = NoRecord
    /\ verbosity_level' = "Info"
    /\ written' = FALSE
    /\ UNCHANGED <<module_tresholds, target_tresholds, pc, module_levels,
                   target_levels, parse_vars>>

Next == New \/ Write \/ Return

Spec == Init /\ [][Next]_vars

----------------------------------------------------------------------------
(* The parser and serializer as pure functions: parse, serialize, re-parse *)

InitParse ==
    /\ level_strings \in LevelStrings
    /\ parse_pc = "start"
    /\ levels = EmptyMap
    /\ text = <<>>
    /\ reparsed = NoParse
    /\ module_tresholds = <<>>
    /\ target_tresholds = <<>>
    /\ pc = "init"
    /\ module_levels = EmptyMap
    /\ target_levels = EmptyMap
    /\ decided = FALSE
    /\ record = NoRecord
    /\ verbosity_level = "Info"
    /\ written = FALSE

Parse ==
    /\ parse_pc = "start"
    /\ LET res == parse_level_strings(level_strings) IN
          /\ parse_pc' = IF res.panicked THEN "panicked" ELSE "parsed"
          /\ levels' = res.levels
    /\ UNCHANGED <<level_strings, text, reparsed, resolver_vars>>

Serialize ==
    /\ parse_pc = "parsed"
    /\ \E o \in IterOrders(levels) : text' = levels_to_string(levels, o)
    /\ parse_pc' = "serialized"
    /\ UNCHANGED <<level_strings, levels, reparsed, resolver_vars>>

Reparse ==
    /\ parse_pc = "serialized"
    /\ reparsed' = parse_level_strings(<<text>>)
    /\ parse_pc' = "reparsed"
    /\ UNCHANGED <<level_strings, levels, text, resolver_vars>>

NextParse == Parse \/ Serialize \/ Reparse

SpecParse == InitParse /\ [][NextParse]_vars

----------------------------------------------------------------------------
(* Vocabulary of the properties, defined without the operators above *)

\* urgency of a severity: Trace is the least urgent, Error the most
Urgency == [l \in Level |->
    CASE l = "Trace" -> 0
      [] l = "Debug" -> 1
      [] l = "Info"  -> 2
      [] l = "Warn"  -> 3
      [] l = "Error" -> 4]

\* k is a contiguous substring of s
Contains(s, k) ==
    \E i \in 1..(Len(s) + 1) :
        \A j \in 1..Len(k) : i + j - 1 <= Len(s) /\ s[i + j - 1] = k[j]

ModuleOf(r) == IF r.module_path = {} THEN <<>> ELSE CHOOSE m \in r.module_path : TRUE

TargetIsSet(r) == r.target # ModuleOf(r)

\* the patterns of a table that are substrings of the candidate string
Matching(table, candidate) == {p \in DOMAIN table : Contains(candidate, p)}

\* the table and the candidate string that govern the decision on record r
Governing(r) == IF TargetIsSet(r) THEN target_levels ELSE module_levels

Candidate(r) == IF TargetIsSet(r) THEN r.target ELSE ModuleOf(r)

GoverningSpecs(r) == IF TargetIsSet(r) THEN target_tresholds ELSE module_tresholds

\* some comma-separated entry of some string has more than one colon
HasMultiColon(specs) ==
    \E n \in 1..Len(specs) :
        LET str == specs[n] IN
        \E i, j \in 1..Len(str) :
            /\ i < j
            /\ str[i] = ":"
            /\ str[j] = ":"
            /\ \A k \in i..j : str[k] # ","

\* the specs hold no entry: no string, or only empty strings and commas
NoEntry(specs) ==
    \A n \in 1..Len(specs) : \A i \in 1..Len(specs[n]) : specs[n][i] = ","

\* the entry's text before its first colon, and after it
ColonAt(e) == {i \in 1..Len(e) : e[i] = ":"}

PatternOf(e) ==
    IF ColonAt(e) = {} THEN e
    ELSE SubSeq(e, 1, (CHOOSE i \in ColonAt(e) : \A j \in ColonAt(e) : i <= j) - 1)

AbbrOf(e) ==
    SubSeq(e, (CHOOSE i \in ColonAt(e) : \A j \in ColonAt(e) : i <= j) + 1, Len(e))

KnownAbbr == {<<"T">>, <<"D">>, <<"I">>, <<"W">>, <<"E">>}

\* the severity the specification gives to an entry with a recognised form
EntrySeverity(e) ==
    IF ColonAt(e) = {} THEN "Trace"
    ELSE CASE AbbrOf(e) = <<"T">> -> "Trace"
           [] AbbrOf(e) = <<"D">> -> "Debug"
           [] AbbrOf(e) = <<"I">> -> "Info"
           [] AbbrOf(e) = <<"W">> -> "Warn"
           [] AbbrOf(e) = <<"E">> -> "Error"
           [] OTHER -> "Unrecognised"

\* the non-empty entries of all strings, in input order
NonEmptyEntries(specs) == SelectSeq(FlatEntries(specs), LAMBDA e : e # <<>>)

\* every entry has at most one colon and, if it has one, a recognised abbreviation
WellFormed(specs) ==
    \A n \in 1..Len(NonEmptyEntries(specs)) :
        LET e == NonEmptyEntries(specs)[n] IN
        /\ Cardinality(ColonAt(e)) <= 1
        /\ EntrySeverity(e) \in Level

\* the last entry with pattern p
LastEntry(specs, p) ==
    LET es == NonEmptyEntries(specs)
        n == CHOOSE i \in 1..Len(es) :
                 /\ PatternOf(es[i]) = p
                 /\ \A j \in (i + 1)..Len(es) : PatternOf(es[j]) # p
    IN  es[n]

HasEntry(specs, p) ==
    \E i \in 1..Len(NonEmptyEntries(specs)) : PatternOf(NonEmptyEntries(specs)[i]) = p

\* the mapping the specification describes for well-formed specs
ExpectedTable(specs) ==
    [p \in {PatternOf(NonEmptyEntries(specs)[i]) : i \in 1..Len(NonEmptyEntries(specs))}
        |-> EntrySeverity(LastEntry(specs, p))]

----------------------------------------------------------------------------
(* Properties *)

\* C1: write() passes the record to the sink iff its severity is at least as
\* urgent as the resolved threshold (Trace least urgent, Error most urgent):
\* threshold Warn passes only Warn and Error, Info only Info, Warn and Error,
\* Error only Error, Trace all five.
C1_EmitIffUrgentEnough ==
    decided =>
        /\ written <=> Urgency[record.level] >= Urgency[verbosity_level]
        /\ verbosity_level = "Warn" => (written <=> record.level \in {"Warn", "Error"})
        /\ verbosity_level = "Info" =>
              (written <=> record.level \in {"Info", "Warn", "Error"})
        /\ verbosity_level = "Error" => (written <=> record.level = "Error")
        /\ verbosity_level = "Trace" => written

C1_Witness ==
    /\ decided
    /\ verbosity_level = "Warn"
    /\ record.level = "Warn"
    /\ written

\* C2: an entry pattern:X with X not one of T, D, I, W, E makes the pattern's
\* threshold Trace, so a record whose candidate string is matched by that
\* pattern only is accepted whatever its severity.
C2_UnknownAbbrIsTrace ==
    decided =>
        \A p \in Matching(Governing(record), Candidate(record)) :
            ( /\ Matching(Governing(record), Candidate(record)) = {p}
              /\ HasEntry(GoverningSpecs(record), p)
              /\ Cardinality(ColonAt(LastEntry(GoverningSpecs(record), p))) = 1
              /\ AbbrOf(LastEntry(GoverningSpecs(record), p)) \notin KnownAbbr )
            => (verbosity_level = "Trace" /\ written)

\* C3: new() fails exactly when some entry of the module or target specs has
\* more than one colon; a failed new() leaves no table, not even a partial
\* one, and no record is ever decided.
C3_MultiColonFails ==
    /\ pc # "init" =>
          (pc = "panicked" <=>
              HasMultiColon(module_tresholds) \/ HasMultiColon(target_tresholds))
    /\ pc = "panicked" =>
          /\ module_levels = EmptyMap
          /\ target_levels = EmptyMap
          /\ ~decided

C3_Witness ==
    /\ pc = "panicked"
    /\ ~HasMultiColon(module_tresholds)
    /\ ~NoEntry(module_tresholds)
    /\ HasMultiColon(target_tresholds)

\* C4: after a successful new() module_levels is non-empty: it is {"": Info}
\* when the module specs hold no entry, and the parsed table with nothing
\* added otherwise; target_levels is the parsed target table, possibly empty.
C4_FallbackEntry ==
    pc = "constructed" =>
        /\ DOMAIN module_levels # {}
        /\ NoEntry(module_tresholds) =>
              module_levels = [p \in {<<>>} |-> "Info"]
        /\ ~NoEntry(module_tresholds) =>
              module_levels = parse_level_strings(module_tresholds).levels
        /\ target_levels = parse_level_strings(target_tresholds).levels

C4_Witness ==
    /\ pc = "constructed"
    /\ module_tresholds # <<>>
    /\ NoEntry(module_tresholds)
    /\ module_levels = [p \in {<<>>} |-> "Info"]
    /\ target_levels = EmptyMap

\* C5 as stated: re-parsing the serialized table gives the same
\* pattern-to-severity mapping.
C5_RoundTripOriginal ==
    parse_pc = "reparsed" => (~reparsed.panicked /\ reparsed.levels = levels)

\* C5 as amended: re-parsing the serialized table gives the same patterns,
\* each mapped to Info, whatever the order of serialization.
C5_RoundTripPatternsOnly ==
    parse_pc = "reparsed" =>
        /\ ~reparsed.panicked
        /\ reparsed.levels = [p \in DOMAIN levels |-> "Info"]

C5_Witness ==
    /\ parse_pc = "reparsed"
    /\ Cardinality(DOMAIN levels) = 2
    /\ \E p \in DOMAIN levels : levels[p] = "Warn"
    /\ reparsed.levels # levels

\* C6 as stated: if a record of severity s2 is accepted at threshold t, every
\* record of severity s1 <= s2 (Trace < Debug < Info < Warn < Error) is
\* accepted at t.
C6_MonotoneOriginal ==
    (decided /\ written) =>
        \A s1 \in Level :
            Urgency[s1] <= Urgency[record.level] => Passes(s1, verbosity_level)

\* C6 as amended: if a record of severity s1 is accepted at threshold t, every
\* record of severity s2 >= s1 (Trace < Debug < Info < Warn < Error) is
\* accepted at t.
C6_MonotoneUpward ==
    (decided /\ written) =>
        \A s2 \in Level :
            Urgency[record.level] <= Urgency[s2] => Passes(s2, verbosity_level)

C6_Witness ==
    /\ decided
    /\ written
    /\ record.level = "Info"
    /\ verbosity_level = "Debug"

\* C7: when the target differs from the module path the threshold is the
\* severity of a target_levels entry whose pattern is a substring of the
\* target, or Info when there is none, whatever module_levels holds; when
\* they are equal the threshold comes from module_levels in the same way,
\* whatever target_levels holds.
C7_OneTableGoverns ==
    decided =>
        LET own == IF TargetIsSet(record) THEN target_levels ELSE module_levels
            hit == Matching(own, Candidate(record))
        IN  /\ hit # {} => verbosity_level \in {own[p] : p \in hit}
            /\ hit = {} => verbosity_level = "Info"

C7_Witness ==
    /\ decided
    /\ TargetIsSet(record)
    /\ Matching(target_levels, record.target) = {}
    /\ \E p \in Matching(module_levels, record.target) : module_levels[p] = "Error"
    /\ verbosity_level = "Info"

\* C8: for specs whose entries have at most one colon and a recognised
\* abbreviation, parse_level_strings returns the mapping of every non-empty
\* entry in input order: "pattern" maps to Trace, "pattern:T|D|I|W|E" to
\* Trace|Debug|Info|Warn|Error, and the last occurrence of a pattern wins.
C8_ParseMapping ==
    (parse_pc # "start" /\ WellFormed(level_strings)) =>
        /\ parse_pc # "panicked"
        /\ levels = ExpectedTable(level_strings)

C8_Witness ==
    /\ parse_pc = "parsed"
    /\ WellFormed(level_strings)
    /\ Len(level_strings) = 2
    /\ level_strings[1] = <<"a", ":", "W">>
    /\ level_strings[2] = <<"a", ":", "E">>
    /\ levels = [p \in {<<"a">>} |-> "Error"]

\* C9 as stated: for a record whose target equals its module path some
\* module_levels pattern is always a substring of the module path.
C9_AlwaysMatchOriginal ==
    (decided /\ ~TargetIsSet(record)) =>
        Matching(module_levels, ModuleOf(record)) # {}

\* C9 as amended: for a record whose target equals its module path a match is
\* always found when module_levels holds the empty pattern, as the fallback
\* table does; the threshold is the severity of a matching entry when there
\* is one and the hard-coded Info when there is none.
C9_MatchOrDefault ==
    (decided /\ ~TargetIsSet(record)) =>
        LET hit == Matching(module_levels, ModuleOf(record)) IN
        /\ <<>> \in DOMAIN module_levels => hit # {}
        /\ NoEntry(module_tresholds) => hit # {}
        /\ hit # {} => verbosity_level \in {module_levels[p] : p \in hit}
        /\ hit = {} => verbosity_level = "Info"

C9_Witness ==
    /\ decided
    /\ ~TargetIsSet(record)
    /\ module_levels = [p \in {<<"a">>} |-> "Warn"]
    /\ ModuleOf(record) = <<"x", "y", "z">>
    /\ verbosity_level = "Info"

\* C10: when all entries of the governing table whose pattern is a substring
\* of the candidate string carry the same severity, every iteration order of
\* the table gives the decision that was taken.
C10_OrderIndependent ==
    decided =>
        LET hit == Matching(Governing(record), Candidate(record)) IN
        (\A p, q \in hit : Governing(record)[p] = Governing(record)[q]) =>
            \A o \in IterOrders(Governing(record)) :
                Passes(record.level,
                       Threshold(record, module_levels, target_levels, o)) = written

C10_Witness ==
    /\ decided
    /\ Cardinality(Matching(Governing(record), Candidate(record))) = 2
    /\ \A p \in DOMAIN Governing(record) : Governing(record)[p] = "Warn"
    /\ verbosity_level = "Warn"
    /\ record.level = "Info"
    /\ ~written

====
